---- MODULE Spec2Model ----
(***************************************************************************)
(* State-machine model of server/async.py: the multi-round driver          *)
(* AsyncServer.run, the synchronous round (sync_round), the asynchronous   *)
(* time-ordered event loop (async_round) with its PriorityQueue of         *)
(* (aggregate_time, Group) tuples, the two aggregators and the Record.     *)
(*                                                                         *)
(* Simulated time is counted in whole seconds, or in whole ticks finer     *)
(* than a snapshot's tag (config.unit).  In the rounds the model weights   *)
(* are one scalar tensor held in fixed point (an integer number of         *)
(* quanta); coefficients (alpha, the staleness factor) are scaled by       *)
(* CoefScale and a blend is rounded down to a quantum, as finite-precision *)
(* arithmetic rounds to a representable value.  A single call of an        *)
(* aggregator on a batch of reports is computed in exact rationals.        *)
(***************************************************************************)
EXTENDS Integers, Sequences, FiniteSets, TLC

VARIABLES
    config,            \* self.config: the run-level parameters, fixed for a run
    pc,                \* position of the control flow of run()
    round,             \* loop variable of run()
    T_old,             \* run(): start time of the current round
    T_new,             \* run(): time returned by the last round
    accuracy,          \* run(): accuracy returned by the last round
    records,           \* self.records: Record(t, acc)
    model,             \* self.model: the global model's weight
    snapshots,         \* files global_<tag> written by async_save_model
    global_file,       \* file 'global' written by save_model
    delay,             \* client.delay of every client of the pool
    num_delay_uses,    \* per client: set_aggregate_time calls since its set_delay
    sample_groups,     \* the round's groups, in selection order
    download_time,     \* group.download_time
    aggregate_time,    \* group.aggregate_time
    first_aggregate_time, \* the aggregate_time a group was first enqueued with
    queue,             \* PriorityQueue.queue: the heap list of (time, group)
    select_group,      \* async_round: the group popped last
    conf_download_time, \* download_time handed to async_configuration
    T_cur,             \* async_round / sync_round: current simulated time
    T_prev,            \* T_cur of the previous iteration of this round
    staleness,         \* staleness handed to aggregation()
    fold_model,        \* every aggregation of the run applied in order
    num_aggregated,    \* per group: aggregations in this round (saturating)
    round_acc_hit,     \* an aggregation of this round reached the target
    agg_call,          \* one call of aggregation(): self.model, reports, staleness
    agg_result,        \* its outcome: the exception or the weights, self.model after
    clients,           \* self.clients: the pool make_clients built
    thr                \* the threads that run one group's clients

vars == <<config, pc, round, T_old, T_new, accuracy, records, model, snapshots,
          global_file, delay, num_delay_uses, sample_groups, download_time,
          aggregate_time, first_aggregate_time, queue, select_group,
          conf_download_time, T_cur, T_prev, staleness, fold_model,
          num_aggregated, round_acc_hit, agg_call, agg_result, clients, thr>>

(***************************************************************************)
(* Bounds of the model.                                                    *)
(***************************************************************************)
MaxDelay == 3        \* largest delay set_delay draws
MaxInterval == 1     \* largest config.sync.interval explored
MaxRecords == 2      \* Record entries kept (the most recent ones)
MaxCount == 2        \* saturation of the per-round counters

Unset == -1          \* an attribute not assigned yet (None)

Clients == {1, 2, 3}          \* the largest pool make_clients builds
Delays == 0..MaxDelay
Weights == {0, 8}            \* weights a local training can report
InitWeight == 4              \* weight of the freshly built fl_model.Net()

CoefScale == 100             \* coefficients are counted in 1/CoefScale
TagsPerSecond == 1000        \* '{:.3f}': three decimals

Max(S) == CHOOSE x \in S : \A y \in S : y <= x
Range(s) == {s[i] : i \in 1..Len(s)}

(***************************************************************************)
(* Group (lines 15-26).  A group is identified with its single client:     *)
(* selection() builds Group([client]) for every sampled client.            *)
(***************************************************************************)
GroupClients(g) == {g}

\* a mutant of set_aggregate_time: the delay is subtracted
set_aggregate_time_sub(dl, g, d) == dl - Max({d[c] : c \in GroupClients(g)})

\* Group.set_aggregate_time: download_time + max([c.delay for c in clients])
set_aggregate_time(dl, g, d) == dl + Max({d[c] : c \in GroupClients(g)})

(***************************************************************************)
(* Record (lines 28-42).  The model keeps the MaxRecords most recent       *)
(* entries of the two parallel lists.                                      *)
(***************************************************************************)
EmptyRecord == [t |-> <<>>, acc |-> <<>>]

KeepLast(s) == IF Len(s) > MaxRecords THEN Tail(s) ELSE s

append_acc_record(rec, t, acc) ==
    [t |-> KeepLast(Append(rec.t, t)), acc |-> KeepLast(Append(rec.acc, acc))]

get_latest_t(rec) == rec.t[Len(rec.t)]
get_latest_acc(rec) == rec.acc[Len(rec.acc)]

(***************************************************************************)
(* PriorityQueue of tuples (aggregate_time, group) (lines 292-298, 345).   *)
(* The queue is heapq's list; put is heappush and get is heappop.  Tuples  *)
(* compare by their first differing position; Group defines no ordering,   *)
(* so comparing two tuples with equal times and different groups raises    *)
(* TypeError.                                                              *)
(***************************************************************************)
\* a mutant of the comparison: the order is reversed
ItemLT_reversed(a, b) ==
    IF a[1] # b[1] THEN (IF a[1] > b[1] THEN "true" ELSE "false")
    ELSE IF a[2] = b[2] THEN "false"
    ELSE "TypeError"

\* (t1, g1) < (t2, g2)
ItemLT(a, b) ==
    IF a[1] # b[1] THEN (IF a[1] < b[1] THEN "true" ELSE "false")
    ELSE IF a[2] = b[2] THEN "false"
    ELSE "TypeError"

\* positions are 0-based as in heapq
Swap(heap, i, j) == [heap EXCEPT ![i + 1] = heap[j + 1], ![j + 1] = heap[i + 1]]

RECURSIVE siftdown(_, _, _)
siftdown(heap, startpos, pos) ==
    IF pos > startpos
    THEN LET parentpos == (pos - 1) \div 2
             c == ItemLT(heap[pos + 1], heap[parentpos + 1])
         IN  IF c = "TypeError" THEN [heap |-> heap, err |-> TRUE]
             ELSE IF c = "true"
                  THEN siftdown(Swap(heap, pos, parentpos), startpos, parentpos)
                  ELSE [heap |-> heap, err |-> FALSE]
    ELSE [heap |-> heap, err |-> FALSE]

RECURSIVE siftup(_, _, _)
siftup(heap, startpos, pos) ==
    LET endpos == Len(heap)
        childpos == 2 * pos + 1
    IN  IF childpos < endpos
        THEN IF childpos + 1 < endpos
             THEN LET c == ItemLT(heap[childpos + 1], heap[childpos + 2])
                  IN  IF c = "TypeError" THEN [heap |-> heap, err |-> TRUE]
                      ELSE LET child == IF c = "true" THEN childpos
                                        ELSE childpos + 1
                           IN  siftup(Swap(heap, pos, child), startpos, child)
             ELSE siftup(Swap(heap, pos, childpos), startpos, childpos)
        ELSE siftdown(heap, startpos, pos)

\* queue.put(item): heap.append(item); _siftdown(heap, 0, len(heap) - 1)
heappush(heap, item) == siftdown(Append(heap, item), 0, Len(heap))

\* queue.get(): the last element replaces the root and is sifted
heappop(heap) ==
    LET n == Len(heap)
        lastelt == heap[n]
        rest == SubSeq(heap, 1, n - 1)
    IN  IF n = 1 THEN [heap |-> rest, item |-> lastelt, err |-> FALSE]
        ELSE LET r == siftup([rest EXCEPT ![1] = lastelt], 0, 0)
             IN  [heap |-> r.heap, item |-> heap[1], err |-> r.err]

\* for group in sample_groups: queue.put((group.aggregate_time, group))
RECURSIVE put_all(_, _, _)
put_all(heap, groups, agg) ==
    IF groups = <<>> THEN [heap |-> heap, err |-> FALSE]
    ELSE LET r == heappush(heap, <<agg[Head(groups)], Head(groups)>>)
         IN  IF r.err THEN r ELSE put_all(r.heap, Tail(groups), agg)

QueueGroups(heap) == {heap[i][2] : i \in 1..Len(heap)}

(***************************************************************************)
(* Reports.  A report carries the weight the client trained, its number    *)
(* of samples and (not used by the aggregators) its accuracy.              *)
(***************************************************************************)
ClientSamples == [c \in Clients |-> c]     \* len of the client's partition

RECURSIVE SumOver(_, _)
SumOver(S, f) ==
    IF S = {} THEN 0
    ELSE LET c == CHOOSE x \in S : TRUE IN f[c] + SumOver(S \ {c}, f)

\* sum([report.num_samples for report in reports])
total_samples(cs) == SumOver(cs, ClientSamples)

(***************************************************************************)
(* Staleness function (lines 523-534), scaled by CoefScale.                *)
(***************************************************************************)
ISqrt(n) == CHOOSE r \in 0..CoefScale : r * r <= n /\ n < (r + 1) * (r + 1)

HingeA == 10
HingeB == 4

staleness_coef(func, s) ==
    IF func = "constant" THEN CoefScale
    ELSE IF func = "polynomial"
         THEN ISqrt((CoefScale * CoefScale) \div (s + 1))
         ELSE IF s <= HingeB THEN CoefScale
              ELSE CoefScale \div (HingeA * (s - HingeB) + 1)

(***************************************************************************)
(* Tags of the snapshot files (lines 587, 594).  A file global_<tag> is    *)
(* keyed by the time formatted with three decimals, counted here in        *)
(* thousandths of a second.  The times of a run are whole seconds, or, in  *)
(* the runs with config.unit = "tick", whole ticks of 1/TicksPerTag of a   *)
(* thousandth.                                                             *)
(***************************************************************************)
TicksPerTag == 3

\* '{:.3f}'.format(t): the nearest thousandth
FormatTime(t) ==
    IF config.unit = "s" THEN t * TagsPerSecond
    ELSE (2 * t + TicksPerTag) \div (2 * TicksPerTag)

\* float(tag) < cur_time
TagBefore(tag, cur_time) ==
    IF config.unit = "s" THEN tag < cur_time * TagsPerSecond
    ELSE tag * TicksPerTag < cur_time

(***************************************************************************)
(* Aggregators (lines 459-521).  w maps every reporting client to the      *)
(* weight of its report; baseline is extract_weights(self.model).          *)
(***************************************************************************)
\* federated_averaging: baseline + sum_i (w_i - baseline) * n_i / total
federated_averaging(baseline, cs, w) ==
    baseline + (SumOver(cs, [c \in cs |-> (w[c] - baseline) * ClientSamples[c]])
                \div total_samples(cs))

\* lines 496-503: the sample-weighted mean of the raw reported weights
new_weights(cs, w) ==
    SumOver(cs, [c \in cs |-> w[c] * ClientSamples[c]]) \div total_samples(cs)

\* line 509: alpha_t = self.alpha * self.staleness(staleness), the product of
\* two coefficients, counted in 1/CoefScale^2
alpha_t(cfg, s) == cfg.alpha * staleness_coef(cfg.staleness_func, s)

AlphaScale == CoefScale * CoefScale

\* a mutant of line 518: 1 + alpha_t in place of 1 - alpha_t
blend_exact_plus(baseline, nw_num, n, a) ==
    <<(AlphaScale + a) * baseline * n + a * nw_num, AlphaScale * n>>

\* lines 514-519: (1 - alpha_t) * weight + alpha_t * new_weights[i], exactly,
\* as <<numerator, denominator>>; the new weight is nw_num / n
blend_exact(baseline, nw_num, n, a) ==
    <<(AlphaScale - a) * baseline * n + a * nw_num, AlphaScale * n>>

\* the same blend of whole quanta, rounded down to a quantum
blend(baseline, nw, a) ==
    LET r == blend_exact(baseline, nw, 1, a) IN r[1] \div r[2]

\* a mutant of line 506: the baseline is the snapshot the group downloaded
async_baseline_snapshot(m, snaps, dl) == snaps[FormatTime(dl)]

\* line 506: baseline_weights = fl_model.extract_weights(self.model)
async_baseline(m, snaps, dl) == m

federated_async(m, snaps, dl, cfg, cs, w, s) ==
    blend(async_baseline(m, snaps, dl), new_weights(cs, w), alpha_t(cfg, s))

(***************************************************************************)
(* The aggregators on whole batches of reports (lines 421-534).  The model  *)
(* weights are a list of (name, tensor) pairs, a report is its num_samples  *)
(* and its list of (name, tensor) pairs with as many tensors as the model.  *)
(* An outcome is the exception raised ("none" if none) and the updated      *)
(* weights, computed exactly: a list of <<name, numerator, denominator>>.   *)
(***************************************************************************)
RECURSIVE SeqSum(_)
SeqSum(q) == IF q = <<>> THEN 0 ELSE Head(q) + SeqSum(Tail(q))

Raise(e) == [err |-> e, weights |-> Unset]
Return(ws) == [err |-> "none", weights |-> ws]

\* sum([report.num_samples for report in reports])
batch_total_samples(reports) ==
    SeqSum([i \in 1..Len(reports) |-> reports[i].num_samples])

\* line 438: assert name == bl_name
assert_name(name, bl_name) == name = bl_name

\* extract_client_updates (lines 421-445): the deltas against the baseline,
\* or AssertionError at the first name that differs from the baseline's
extract_client_updates(baseline_weights, reports) ==
    IF \A i \in 1..Len(reports) : \A j \in 1..Len(reports[i].weights) :
          assert_name(reports[i].weights[j][1], baseline_weights[j][1])
    THEN Return([i \in 1..Len(reports) |->
                   [j \in 1..Len(reports[i].weights) |->
                       <<reports[i].weights[j][1],
                         reports[i].weights[j][2] - baseline_weights[j][2]>>]])
    ELSE Raise("AssertionError")

\* extract_client_weights (lines 447-453): the reported lists as they are
extract_client_weights(reports) == [i \in 1..Len(reports) |-> reports[i].weights]

\* a mutant of num_samples / total_samples: a division that yields nan
true_div_nan(num_samples, total) == "none"

\* num_samples / total_samples (lines 476, 503) of two ints
true_div(num_samples, total) == IF total = 0 THEN "ZeroDivisionError" ELSE "none"

\* a mutant of line 476: the deltas are summed unweighted
avg_term_unweighted(delta, num_samples) == delta

\* line 476: delta * (num_samples / total_samples), in 1/total_samples
avg_term(delta, num_samples) == delta * num_samples

\* federated_averaging (lines 459-485)
federated_averaging_batch(baseline_weights, reports) ==
    LET u == extract_client_updates(baseline_weights, reports)
        total == batch_total_samples(reports)
    IN  IF u.err # "none" THEN u
        ELSE IF reports = <<>> THEN Raise("IndexError")          \* updates[0]
        ELSE IF true_div(reports[1].num_samples, total) # "none"
             THEN Raise(true_div(reports[1].num_samples, total))
        ELSE Return([j \in 1..Len(baseline_weights) |->
                <<baseline_weights[j][1],
                  baseline_weights[j][2] * total
                    + SeqSum([i \in 1..Len(reports) |->
                                avg_term(u.weights[i][j][2], reports[i].num_samples)]),
                  total>>])

\* staleness() (lines 523-534) on any number: the outcomes it can have.
\* pow(0.0, -0.5) raises; pow of a negative number to -0.5 is an imaginary
\* number, which the tensor arithmetic of line 518 refuses or takes,
\* depending on the torch build, keeping its real part 0.
staleness_outcomes(func, s) ==
    IF func = "polynomial" /\ s + 1 = 0
    THEN {[err |-> "ZeroDivisionError", coef |-> Unset]}
    ELSE IF func = "polynomial" /\ s + 1 < 0
         THEN {[err |-> "TypeError", coef |-> Unset], [err |-> "none", coef |-> 0]}
         ELSE {[err |-> "none", coef |-> staleness_coef(func, s)]}

\* federated_async (lines 487-521) with the outcome o of staleness()
federated_async_batch(baseline_weights, reports, cfg, o) ==
    LET weights == extract_client_weights(reports)
        total == batch_total_samples(reports)
    IN  IF reports = <<>> THEN Raise("IndexError")               \* weights[0]
        ELSE IF true_div(reports[1].num_samples, total) # "none"
             THEN Raise(true_div(reports[1].num_samples, total))
        ELSE IF o.err # "none" THEN Raise(o.err)
        ELSE Return([j \in 1..Len(baseline_weights) |->
                <<baseline_weights[j][1]>> \o
                blend_exact(baseline_weights[j][2],
                            SeqSum([i \in 1..Len(reports) |->
                                      weights[i][j][2] * reports[i].num_samples]),
                            total, cfg.alpha * o.coef)])

(***************************************************************************)
(* Snapshot files (lines 586-600).                                         *)
(***************************************************************************)

\* a mutant of async_save_model: nothing is written
async_save_model_skip(snaps, m, t) == snaps

\* async_save_model: torch.save to path/global_{:.3f}
async_save_model(snaps, m, t) ==
    [tag \in DOMAIN snaps \cup {FormatTime(t)} |->
        IF tag = FormatTime(t) THEN m ELSE snaps[tag]]

\* rm_old_models: remove every file whose parsed time is < cur_time
rm_old_models(snaps, cur_time) ==
    [tag \in {x \in DOMAIN snaps : ~TagBefore(x, cur_time)} |-> snaps[tag]]

(***************************************************************************)
(* Configurations explored and the initial state: boot() has built the     *)
(* model and saved it as global_0.000, and run() has reset the Record and  *)
(* T_old.                                                                  *)
(***************************************************************************)
Targets == {0, 2}            \* config.fl.target_accuracy; 0 is "not set"
Alphas == {50, 100}          \* config.sync.alpha, in 1/CoefScale
StalenessFuncs == {"constant", "polynomial"}

\* two rounds over a pool of two clients, and one round that samples a whole
\* pool of three
Configs ==
    [unit : {"s"}, sync_type : {"async"},
     total : {2}, rounds : {2}, target_accuracy : Targets,
     per_round : {1, 2}, interval : 0..MaxInterval, alpha : Alphas,
     staleness_func : StalenessFuncs]
    \cup
    [unit : {"s"}, sync_type : {"async"},
     total : {3}, rounds : {1}, target_accuracy : {0},
     per_round : {3}, interval : 0..MaxInterval, alpha : {CoefScale},
     staleness_func : {"constant"}]
    \cup
    [unit : {"s"}, sync_type : {"sync"},
     total : {2}, rounds : {2}, target_accuracy : Targets,
     per_round : {1, 2}, interval : {0}, alpha : {CoefScale},
     staleness_func : {"constant"}]

NoGroupTimes == [g \in Clients |-> Unset]

\* the state run() starts from, whatever the configuration
InitRun ==
    /\ clients = [i \in 1..config.total |-> i]
    /\ round = 1
    /\ T_old = 0
    /\ T_new = Unset
    /\ accuracy = Unset
    /\ records = EmptyRecord
    /\ model = InitWeight
    /\ snapshots = async_save_model(<<>>, InitWeight, 0)
    /\ global_file = Unset
    /\ delay = [c \in Clients |-> Unset]
    /\ num_delay_uses = [c \in Clients |-> 0]
    /\ sample_groups = <<>>
    /\ download_time = NoGroupTimes
    /\ aggregate_time = NoGroupTimes
    /\ first_aggregate_time = NoGroupTimes
    /\ queue = <<>>
    /\ select_group = Unset
    /\ conf_download_time = Unset
    /\ T_cur = Unset
    /\ T_prev = Unset
    /\ staleness = Unset
    /\ fold_model = InitWeight
    /\ num_aggregated = [g \in Clients |-> 0]
    /\ round_acc_hit = FALSE

Init ==
    /\ config \in Configs
    /\ pc = "round"
    /\ agg_call = Unset
    /\ agg_result = Unset
    /\ thr = Unset
    /\ InitRun

(***************************************************************************)
(* selection() (lines 350-361): random.sample of per_round clients, one    *)
(* Group per client, in sample order.                                      *)
(***************************************************************************)
\* a mutant of line 354: the clients are drawn with replacement
selection_with_replacement(cfg) == [1..cfg.per_round -> 1..cfg.total]

selection(cfg) ==
    {s \in [1..cfg.per_round -> 1..cfg.total] :
        \A i, j \in 1..cfg.per_round : i # j => s[i] # s[j]}

\* line 354: random.sample returns a new list and leaves self.clients as it is
pool_after_sample(pool, groups) == pool

\* lines 284-289 / 227-232: set_delay on every sampled client, then the
\* group's download_time and aggregate_time
SetDelays(groups, d) == [c \in Clients |-> IF c \in Range(groups) THEN d[c] ELSE delay[c]]

Bump(n) == IF n < MaxCount THEN n + 1 ELSE MaxCount

\* lines 265-269 (config.clients.do_test is off): the server tests the updated
\* global model on its test set; the better half of the weights scores 2
test(m) == IF 2 * m >= Max(Weights) THEN 2 ELSE 1

TargetMet(cfg, acc) == cfg.target_accuracy # 0 /\ acc >= cfg.target_accuracy

(***************************************************************************)
(* sync_round (lines 221-273), called from run() line 198.                 *)
(***************************************************************************)
\* a mutant of line 237: the fastest client gates the barrier
max_delay_fastest(cs, d) == CHOOSE x \in {d[c] : c \in cs} : \A c \in cs : x <= d[c]

\* line 237: max([c.delay for c in sample_clients])
max_delay(cs, d) == Max({d[c] : c \in cs})

sync_round ==
    /\ pc = "round"
    /\ config.sync_type = "sync"
    /\ \E groups \in selection(config) :
       \E d \in [Range(groups) -> Delays] :
       \E w \in [Range(groups) -> Weights] :
          LET cs == Range(groups)
              new_delay == SetDelays(groups, d)
              now == T_old + max_delay(cs, new_delay)
              updated == federated_averaging(model, cs, w)
              acc == test(updated)
          IN  /\ delay' = new_delay
              /\ num_delay_uses' = [c \in Clients |-> IF c \in cs THEN 1
                                                      ELSE num_delay_uses[c]]
              /\ sample_groups' = groups
              /\ clients' = pool_after_sample(clients, groups)
              /\ download_time' = [g \in Clients |-> IF g \in cs THEN T_old ELSE Unset]
              /\ aggregate_time' =
                    [g \in Clients |-> IF g \in cs
                                       THEN set_aggregate_time(T_old, g, new_delay)
                                       ELSE Unset]
              /\ first_aggregate_time' = aggregate_time'
              /\ T_cur' = now
              /\ model' = updated
              /\ fold_model' = federated_averaging(fold_model, cs, w)
              /\ global_file' = updated
              /\ records' = append_acc_record(records, now, acc)
              /\ accuracy' = acc
              /\ T_new' = now
              /\ num_aggregated' = [g \in Clients |-> IF g \in cs THEN 1 ELSE 0]
              /\ round_acc_hit' = TargetMet(config, acc)
    /\ pc' = "update"
    /\ UNCHANGED <<agg_call, agg_result, thr>>
    /\ UNCHANGED <<config, round, T_old, snapshots, queue, select_group,
                   conf_download_time, T_prev, staleness>>

(***************************************************************************)
(* The start of an async round: rm_old_models (run, line 202), then lines  *)
(* 281-294 of async_round.  A queue.put that compares two groups raises    *)
(* TypeError, which nothing catches.                                       *)
(***************************************************************************)
\* D: the delays set_delay can draw
async_round_begin_drawing(D) ==
    /\ pc = "round"
    /\ config.sync_type = "async"
    /\ \E groups \in selection(config) :
       \E d \in [Range(groups) -> D] :
          LET cs == Range(groups)
              new_delay == SetDelays(groups, d)
              agg == [g \in Clients |-> IF g \in cs
                                        THEN set_aggregate_time(T_old, g, new_delay)
                                        ELSE Unset]
              q == put_all(<<>>, groups, agg)
          IN  /\ delay' = new_delay
              /\ num_delay_uses' = [c \in Clients |-> IF c \in cs THEN 1
                                                      ELSE num_delay_uses[c]]
              /\ sample_groups' = groups
              /\ clients' = pool_after_sample(clients, groups)
              /\ download_time' = [g \in Clients |-> IF g \in cs THEN T_old ELSE Unset]
              /\ aggregate_time' = agg
              /\ first_aggregate_time' = agg
              /\ queue' = q.heap
              /\ pc' = IF q.err THEN "raised" ELSE "async_loop"
    /\ snapshots' = rm_old_models(snapshots, T_old)
    /\ select_group' = Unset
    /\ conf_download_time' = Unset
    /\ T_cur' = Unset
    /\ T_prev' = Unset
    /\ staleness' = Unset
    /\ num_aggregated' = [g \in Clients |-> 0]
    /\ round_acc_hit' = FALSE
    /\ UNCHANGED <<agg_call, agg_result, thr>>
    /\ UNCHANGED <<config, round, T_old, T_new, accuracy, records, model,
                   global_file, fold_model>>

async_round_begin == async_round_begin_drawing(Delays)

(***************************************************************************)
(* One iteration of the while loop of async_round (lines 297-345).  The    *)
(* clients of the popped group are configured with the snapshot tagged     *)
(* with the group's download_time; loading a file that is not there        *)
(* raises.                                                                 *)
(***************************************************************************)
\* the file global_<tag of download_time> is there
snapshot_exists(snaps, dl) == FormatTime(dl) \in DOMAIN snaps

\* a mutant of line 342: the window test is strict
within_window_strict(now, told, tasync) == now - told < tasync

\* a mutant of line 342: the window is one second too long
within_window_late(now, told, tasync) == now - told <= tasync + 1

\* line 342: if T_cur - T_old <= T_async
within_window(now, told, tasync) == now - told <= tasync

\* a mutant of line 315: staleness measured from the round's start
staleness_of_round(agg, dl, told) == agg - told

\* line 315: select_group.aggregate_time - select_group.download_time
staleness_of(agg, dl, told) == agg - dl

async_iteration ==
    /\ pc = "async_loop"
    /\ queue # <<>>
    /\ LET p == heappop(queue) IN
       IF p.err
       THEN /\ pc' = "raised"
            /\ queue' = p.heap
            /\ UNCHANGED <<records, model, snapshots, download_time, aggregate_time,
                           select_group, conf_download_time, T_cur, T_prev,
                           staleness, fold_model, num_aggregated, round_acc_hit,
                           num_delay_uses>>
       ELSE IF ~snapshot_exists(snapshots, download_time[p.item[2]])
       THEN /\ pc' = "raised"
            /\ queue' = p.heap
            /\ select_group' = p.item[2]
            /\ conf_download_time' = download_time[p.item[2]]
            /\ UNCHANGED <<records, model, snapshots, download_time, aggregate_time,
                           T_cur, T_prev, staleness, fold_model, num_aggregated,
                           round_acc_hit, num_delay_uses>>
       ELSE \E w \in Weights :
            LET g == p.item[2]
                cs == GroupClients(g)
                now == aggregate_time[g]
                s == staleness_of(aggregate_time[g], download_time[g], T_old)
                reports == [c \in cs |-> w]
                updated == federated_async(model, snapshots, download_time[g],
                                           config, cs, reports, s)
                acc == test(updated)
                again == within_window(now, T_old, config.interval)
                next_agg == set_aggregate_time(now, g, delay)
                q == IF again THEN heappush(p.heap, <<next_agg, g>>)
                     ELSE [heap |-> p.heap, err |-> FALSE]
            IN  /\ select_group' = g
                /\ conf_download_time' = download_time[g]
                /\ T_prev' = T_cur
                /\ T_cur' = now
                /\ staleness' = s
                /\ model' = updated
                /\ fold_model' = blend(fold_model, new_weights(cs, reports),
                                       alpha_t(config, now - download_time[g]))
                /\ snapshots' = async_save_model(snapshots, updated, now)
                /\ records' = append_acc_record(records, now, acc)
                /\ num_aggregated' = [num_aggregated EXCEPT ![g] = Bump(@)]
                /\ round_acc_hit' = (round_acc_hit \/ TargetMet(config, acc))
                /\ download_time' = IF again THEN [download_time EXCEPT ![g] = now]
                                    ELSE download_time
                /\ aggregate_time' = IF again
                                     THEN [aggregate_time EXCEPT ![g] = next_agg]
                                     ELSE aggregate_time
                /\ num_delay_uses' =
                      IF again
                      THEN [c \in Clients |-> IF c \in cs THEN Bump(num_delay_uses[c])
                                              ELSE num_delay_uses[c]]
                      ELSE num_delay_uses
                /\ queue' = q.heap
                /\ pc' = IF q.err THEN "raised" ELSE "async_loop"
    /\ UNCHANGED <<agg_call, agg_result, clients, thr>>
    /\ UNCHANGED <<config, round, T_old, T_new, accuracy, global_file, delay,
                   sample_groups, first_aggregate_time>>

\* line 347: the loop is left when the queue is empty
async_round_return ==
    /\ pc = "async_loop"
    /\ queue = <<>>
    /\ accuracy' = get_latest_acc(records)
    /\ T_new' = get_latest_t(records)
    /\ pc' = "update"
    /\ UNCHANGED <<agg_call, agg_result, clients, thr>>
    /\ UNCHANGED <<config, round, T_old, records, model, snapshots, global_file,
                   delay, num_delay_uses, sample_groups, download_time,
                   aggregate_time, first_aggregate_time, queue, select_group,
                   conf_download_time, T_cur, T_prev, staleness, fold_model,
                   num_aggregated, round_acc_hit>>

(***************************************************************************)
(* run(), lines 208-214: T_old = T_new, then the break on the target       *)
(* accuracy, else the next round of range(1, rounds + 1).                  *)
(***************************************************************************)
\* a mutant of line 212: the target is not consulted
stop_never(cfg, acc) == FALSE

\* line 212: if target_accuracy and (accuracy >= target_accuracy)
stop_on_target(cfg, acc) == TargetMet(cfg, acc)

run_update ==
    /\ pc = "update"
    /\ T_old' = T_new
    /\ IF stop_on_target(config, accuracy)
       THEN pc' = "done" /\ round' = round
       ELSE IF round < config.rounds
            THEN pc' = "round" /\ round' = round + 1
            ELSE pc' = "done" /\ round' = round
    /\ UNCHANGED <<agg_call, agg_result, clients, thr>>
    /\ UNCHANGED <<config, T_new, accuracy, records, model, snapshots, global_file,
                   delay, num_delay_uses, sample_groups, download_time,
                   aggregate_time, first_aggregate_time, queue, select_group,
                   conf_download_time, T_cur, T_prev, staleness, fold_model,
                   num_aggregated, round_acc_hit>>

Next ==
    \/ sync_round
    \/ async_round_begin
    \/ async_iteration
    \/ async_round_return
    \/ run_update

Spec == Init /\ [][Next]_vars

\* The async runs that sample one group per round: their queue never holds
\* two entries, so no two entries are ever compared.  The control flow of
\* run() is a single thread that takes its next step whenever it has one.
AsyncInit == Init /\ config.sync_type = "async" /\ config.per_round = 1

AsyncNext ==
    \/ async_round_begin
    \/ async_iteration
    \/ async_round_return
    \/ run_update

FairSpec == AsyncInit /\ [][AsyncNext]_vars /\ WF_vars(AsyncNext)

(***************************************************************************)
(* The async runs whose delays and window are whole ticks, finer than the  *)
(* three decimals of a snapshot's tag.                                     *)
(***************************************************************************)
SnapConfigs ==
    [unit : {"tick"}, sync_type : {"async"},
     total : {2}, rounds : {2}, target_accuracy : {0},
     per_round : {1, 2}, interval : 0..MaxInterval, alpha : Alphas,
     staleness_func : {"constant"}]

SnapInit ==
    /\ config \in SnapConfigs
    /\ pc = "round"
    /\ agg_call = Unset
    /\ agg_result = Unset
    /\ thr = Unset
    /\ InitRun

SnapSpec == SnapInit /\ [][AsyncNext]_vars

(***************************************************************************)
(* The runs of one async round over one or two single-client groups whose  *)
(* delays are 2 or 5 seconds, with T_async = 10.                           *)
(***************************************************************************)
ScenarioDelays == {2, 5}
ScenarioInterval == 10

ScenarioConfigs ==
    [unit : {"s"}, sync_type : {"async"},
     total : {2}, rounds : {1}, target_accuracy : {0},
     per_round : {1, 2}, interval : {ScenarioInterval}, alpha : Alphas,
     staleness_func : StalenessFuncs]

ScenarioInit ==
    /\ config \in ScenarioConfigs
    /\ pc = "round"
    /\ agg_call = Unset
    /\ agg_result = Unset
    /\ thr = Unset
    /\ InitRun

scenario_round_begin == async_round_begin_drawing(ScenarioDelays)

ScenarioNext ==
    \/ scenario_round_begin
    \/ async_iteration
    \/ async_round_return
    \/ run_update

ScenarioSpec == ScenarioInit /\ [][ScenarioNext]_vars

(***************************************************************************)
(* One call of aggregation() on any batch of reports, with what follows it  *)
(* in the round: load_weights and the append to the Record (lines 255-272   *)
(* and 316-338).  An exception leaves the round at the raising statement.   *)
(***************************************************************************)
MaxStaleness == 6            \* largest staleness handed to federated_async

TensorNames == <<"weight", "bias">>     \* the names extract_weights lists
NameLists == {TensorNames, <<"bias", "weight">>, <<"weight", "weight">>}
ValueLists == {<<1, 0>>, <<2, 8>>, <<3, 8>>}
SampleCounts == {0, 10, 20, 30}
AllStalenessFuncs == {"constant", "polynomial", "hinge"}
Stalenesses == -2..MaxStaleness

MakeWeights(names, vals) == [j \in 1..Len(names) |-> <<names[j], vals[j]>>]

Baselines == {MakeWeights(TensorNames, <<0, 0>>), MakeWeights(TensorNames, <<4, 2>>)}

Reports ==
    [num_samples : SampleCounts,
     weights : {MakeWeights(n, v) : n \in NameLists, v \in ValueLists}]

AsyncReports ==
    {r \in Reports : r.num_samples <= 20 /\ r.weights[1][1] = "weight"
                                         /\ r.weights[1][2] # 2}

SeqsUpTo(S, n) == UNION {[1..k -> S] : k \in 0..n}

\* every batch of up to two reports, and the batches of three well-named
\* reports with 10, 20 and 30 samples
SyncBatches ==
    SeqsUpTo(Reports, 2)
    \cup {b \in [1..3 -> Reports] :
            \A i \in 1..3 : /\ b[i].num_samples = 10 * i
                            /\ \A j \in 1..2 : b[i].weights[j][1] = TensorNames[j]}

AsyncBatches == SeqsUpTo(AsyncReports, 2)

AggConfigs ==
    [unit : {"s"}, sync_type : {"sync"},
     total : {3}, rounds : {1}, target_accuracy : {0},
     per_round : {3}, interval : {0}, alpha : {CoefScale},
     staleness_func : {"constant"}]
    \cup
    [unit : {"s"}, sync_type : {"async"},
     total : {3}, rounds : {1}, target_accuracy : {0},
     per_round : {3}, interval : {0}, alpha : Alphas,
     staleness_func : AllStalenessFuncs]

AggInit ==
    /\ config \in AggConfigs
    /\ pc = "aggregation"
    /\ \/ /\ config.sync_type = "sync"
          /\ agg_call \in [model : Baselines, reports : SyncBatches,
                            staleness : {Unset}]
       \/ /\ config.sync_type = "async"
          /\ agg_call \in [model : Baselines, reports : AsyncBatches,
                            staleness : Stalenesses]
    /\ agg_result = Unset
    /\ thr = Unset
    /\ InitRun

\* fl_model.test on the updated weights, as test() on the first tensor
\* (weights that are not a number score lowest)
test_weights(ws) == IF ws[1][3] = 0 THEN 1 ELSE test(ws[1][2] \div ws[1][3])

\* the statements after aggregation() when it returned out at time now
AfterAggregation(out, now) ==
    /\ agg_result' = [err |-> out.err, weights |-> out.weights,
                      model |-> IF out.err = "none" THEN out.weights
                                ELSE agg_call.model]
    /\ pc' = IF out.err = "none" THEN "aggregated" ELSE "raised"
    /\ records' = IF out.err = "none"
                   THEN append_acc_record(records, now, test_weights(out.weights))
                   ELSE records

\* sync_round, lines 255-272
sync_aggregation ==
    /\ pc = "aggregation"
    /\ config.sync_type = "sync"
    /\ AfterAggregation(federated_averaging_batch(agg_call.model, agg_call.reports),
                        T_old)
    /\ UNCHANGED <<config, round, T_old, T_new, accuracy, model, snapshots,
                   global_file, delay, num_delay_uses, sample_groups,
                   download_time, aggregate_time, first_aggregate_time, queue,
                   select_group, conf_download_time, T_cur, T_prev, staleness,
                   fold_model, num_aggregated, round_acc_hit, agg_call,
                   clients, thr>>

\* async_round, lines 315-338
async_aggregation ==
    /\ pc = "aggregation"
    /\ config.sync_type = "async"
    /\ \E o \in staleness_outcomes(config.staleness_func, agg_call.staleness) :
          AfterAggregation(federated_async_batch(agg_call.model, agg_call.reports,
                                                 config, o),
                           T_old + agg_call.staleness)
    /\ UNCHANGED <<config, round, T_old, T_new, accuracy, model, snapshots,
                   global_file, delay, num_delay_uses, sample_groups,
                   download_time, aggregate_time, first_aggregate_time, queue,
                   select_group, conf_download_time, T_cur, T_prev, staleness,
                   fold_model, num_aggregated, round_acc_hit, agg_call,
                   clients, thr>>

AggNext ==
    \/ sync_aggregation
    \/ async_aggregation

AggSpec == AggInit /\ [][AggNext]_vars

(***************************************************************************)
(* The threads that run one batch of clients: sync_round lines 239-246 on  *)
(* the round's sample, async_round lines 300-311 on the popped group.  pc  *)
(* is the position of the coordinating thread; thr holds the batch, the    *)
(* index of the list comprehension under way, and for every client the     *)
(* state of its training, the thread that executes it, the state of its    *)
(* Thread object and that Thread's target.                                 *)
(***************************************************************************)

ThreadConfigs ==
    [unit : {"s"}, sync_type : {"sync", "async"},
     total : {3}, rounds : {1}, target_accuracy : {0},
     per_round : {1, 2, 3}, interval : {0}, alpha : {CoefScale},
     staleness_func : {"constant"}]

\* what client.run returns: nothing, or the Report of the client contract
RunReturns == {"None", "Report"}

\* the batch the threads are made for: the whole sample in a sync round, the
\* clients of one group of the sample in an async round
thread_batches(cfg) ==
    IF cfg.sync_type = "sync"
    THEN selection(cfg)
    ELSE {<<s[i]>> : s \in selection(cfg), i \in 1..cfg.per_round}

ThreadInit ==
    /\ config \in ThreadConfigs
    /\ pc = "threads_build"
    /\ agg_call = Unset
    /\ agg_result = Unset
    /\ \E cs \in thread_batches(config) :
          thr = [cs |-> cs, i |-> 1,
                 training |-> [c \in Range(cs) |-> "idle"],
                 trained_by |-> [c \in Range(cs) |-> "none"],
                 thread |-> [c \in Range(cs) |-> "none"],
                 target |-> [c \in Range(cs) |-> "none"],
                 reports |-> <<>>]
    /\ InitRun

ThreadFrame ==
    UNCHANGED <<config, round, T_old, T_new, accuracy, records, model,
                snapshots, global_file, delay, num_delay_uses, sample_groups,
                download_time, aggregate_time, first_aggregate_time, queue,
                select_group, conf_download_time, T_cur, T_prev, staleness,
                fold_model, num_aggregated, round_acc_hit, agg_call,
                agg_result, clients>>

\* the end of one list comprehension over the batch
NextIndex(after) ==
    IF thr.i = Len(thr.cs)
    THEN /\ pc' = after
         /\ thr' = [thr EXCEPT !.i = 1]
    ELSE /\ pc' = pc
         /\ thr' = [thr EXCEPT !.i = thr.i + 1]

\* line 240: Thread(target=client.run) makes a thread whose target is the
\* bound method; nothing of the client runs
sync_thread_create ==
    /\ pc = "threads_build"
    /\ config.sync_type = "sync"
    /\ LET c == thr.cs[thr.i]
           made == [thr EXCEPT !.thread[c] = "new", !.target[c] = "client.run"]
       IN  IF thr.i = Len(thr.cs)
           THEN pc' = "threads_start" /\ thr' = [made EXCEPT !.i = 1]
           ELSE pc' = pc /\ thr' = [made EXCEPT !.i = thr.i + 1]
    /\ ThreadFrame

\* line 302, the argument of Thread(target=client.run(reg=True)): the call is
\* evaluated by the thread that builds the list, and the client trains there
async_client_run_call ==
    /\ pc = "threads_build"
    /\ config.sync_type = "async"
    /\ thr.training[thr.cs[thr.i]] = "idle"
    /\ thr' = [thr EXCEPT !.training[thr.cs[thr.i]] = "running",
                          !.trained_by[thr.cs[thr.i]] = "main"]
    /\ pc' = pc
    /\ ThreadFrame

\* line 302, after the call returned: the thread's target is what it returned
async_thread_create ==
    /\ pc = "threads_build"
    /\ config.sync_type = "async"
    /\ thr.training[thr.cs[thr.i]] = "running"
    /\ \E ret \in RunReturns :
          LET c == thr.cs[thr.i]
              made == [thr EXCEPT !.training[c] = "finished",
                                  !.thread[c] = "new", !.target[c] = ret]
          IN  IF thr.i = Len(thr.cs)
              THEN pc' = "threads_start" /\ thr' = [made EXCEPT !.i = 1]
              ELSE pc' = pc /\ thr' = [made EXCEPT !.i = thr.i + 1]
    /\ ThreadFrame

\* lines 241, 303: t.start()
thread_start ==
    /\ pc = "threads_start"
    /\ LET c == thr.cs[thr.i]
           started == [thr EXCEPT !.thread[c] = "started"]
       IN  IF thr.i = Len(thr.cs)
           THEN pc' = "threads_join" /\ thr' = [started EXCEPT !.i = 1]
           ELSE pc' = pc /\ thr' = [started EXCEPT !.i = thr.i + 1]
    /\ ThreadFrame

\* Thread.run of a started thread whose target is client.run: the client
\* begins to train on that thread
thread_run_target(c) ==
    /\ thr.thread[c] = "started"
    /\ thr.target[c] = "client.run"
    /\ thr' = [thr EXCEPT !.thread[c] = "running", !.training[c] = "running",
                          !.trained_by[c] = "worker"]
    /\ pc' = pc
    /\ ThreadFrame

\* the client's training on a worker thread ends, and the thread with it
thread_run_return(c) ==
    /\ thr.thread[c] = "running"
    /\ thr' = [thr EXCEPT !.thread[c] = "ended", !.training[c] = "finished"]
    /\ pc' = pc
    /\ ThreadFrame

\* Thread.run of a started thread whose target is not client.run: with None
\* it returns at once, with a Report the call of the target raises TypeError
\* inside the thread; the thread ends either way and no client code runs
thread_run_no_target(c) ==
    /\ thr.thread[c] = "started"
    /\ thr.target[c] \in RunReturns
    /\ thr' = [thr EXCEPT !.thread[c] =
                  IF thr.target[c] = "None" THEN "ended" ELSE "ended_TypeError"]
    /\ pc' = pc
    /\ ThreadFrame

ThreadEnded(c) == thr.thread[c] \in {"ended", "ended_TypeError"}

\* lines 242, 304: t.join() returns once the thread has ended
thread_join ==
    /\ pc = "threads_join"
    /\ ThreadEnded(thr.cs[thr.i])
    /\ NextIndex("reporting")
    /\ ThreadFrame

\* lines 246, 311: reports = self.reporting(clients)
thread_reporting ==
    /\ pc = "reporting"
    /\ thr' = [thr EXCEPT !.reports = thr.cs]
    /\ pc' = "reported"
    /\ ThreadFrame

ThreadNext ==
    \/ sync_thread_create
    \/ async_client_run_call
    \/ async_thread_create
    \/ thread_start
    \/ \E c \in Clients : c \in Range(thr.cs) /\ thread_run_target(c)
    \/ \E c \in Clients : c \in Range(thr.cs) /\ thread_run_return(c)
    \/ \E c \in Clients : c \in Range(thr.cs) /\ thread_run_no_target(c)
    \/ thread_join
    \/ thread_reporting

ThreadSpec == ThreadInit /\ [][ThreadNext]_vars

(***************************************************************************)
(* Properties.                                                             *)
(***************************************************************************)
IsAsync == config.sync_type = "async"

\* a step of the while loop that popped a group and aggregated it
PopStep ==
    /\ pc = "async_loop"
    /\ queue # <<>>
    /\ ~heappop(queue).err

\* C1: in an async round the groups are aggregated in chronological order:
\* the time of every pop is >= the time of the pop before it, also when the
\* later entry is a re-enqueued cycle of a group.
C1_PopsChronological ==
    (IsAsync /\ T_prev # Unset) => T_prev <= T_cur

\* the popped entry is a re-enqueued cycle (downloaded after the round's
\* start), it follows an earlier pop, and a group started at another time
\* is still pending
C1_Witness ==
    /\ IsAsync
    /\ pc = "async_loop"
    /\ T_prev # Unset
    /\ T_prev < T_cur
    /\ conf_download_time > T_old
    /\ \E i \in 1..Len(queue) :
          /\ queue[i][2] # select_group
          /\ download_time[queue[i][2]] # conf_download_time

\* C2: the times of the Record never decrease and t and acc have the same
\* length; the time a round returns is the next round's T_old and no entry
\* appended later is smaller.  Every appended entry is compared with its
\* predecessor while both are among the entries kept.
C2_RecordMonotone ==
    /\ Len(records.t) = Len(records.acc)
    /\ \A i \in 1..(Len(records.t) - 1) : records.t[i] <= records.t[i + 1]
    /\ records.t # <<>> => T_old <= get_latest_t(records)
    /\ (pc = "round" /\ round > 1) => T_old = get_latest_t(records)

\* the second round has appended to a Record that the first round filled
C2_Witness ==
    /\ round = 2
    /\ pc \in {"async_loop", "update"}
    /\ T_old > 0
    /\ Len(records.t) = MaxRecords
    /\ records.t[1] < records.t[2]
    /\ get_latest_t(records) > T_old

\* C3: every async round terminates, for any non-negative delays, zero
\* included: once the loop is entered the queue eventually empties and
\* async_round returns.
C3_AsyncRoundTerminates ==
    (pc = "async_loop") ~> (pc = "update")

\* C4: after its aggregation at T_cur a group is put back on the queue,
\* with download_time = T_cur and the recomputed aggregate_time, if and
\* only if T_cur - T_old <= T_async; otherwise nothing is put, so a retired
\* group never comes back in that round.  (heappush appends the entry before
\* it compares it, so the entry is on the queue's list also when the
\* comparison raises.)
C4_ReenqueuePolicy ==
    [][PopStep =>
          LET g == select_group'
              open == T_cur' - T_old <= config.interval
          IN  /\ open <=> g \in QueueGroups(queue')
              /\ open => /\ download_time'[g] = T_cur'
                         /\ aggregate_time'[g] =
                               T_cur' + Max({delay[c] : c \in GroupClients(g)})
                         /\ <<aggregate_time'[g], g>> \in Range(queue')
              /\ ~open => /\ download_time'[g] = download_time[g]
                          /\ aggregate_time'[g] = aggregate_time[g]
              /\ QueueGroups(queue') \subseteq QueueGroups(queue)
              /\ Len(queue') <= Len(queue)
    ]_vars

\* a group aggregated exactly when the window closes is pending again
C4_Witness ==
    /\ pc = "async_loop"
    /\ select_group # Unset
    /\ T_cur - T_old = config.interval
    /\ config.interval > 0
    /\ select_group \in QueueGroups(queue)
    /\ download_time[select_group] = T_cur

\* C5: every group selected for an async round is aggregated at least once
\* in that round, however the round ends, and a group whose first
\* aggregate_time exceeds T_old + T_async exactly once.
C5_EveryGroupAggregated ==
    (IsAsync /\ pc \in {"update", "raised"}) =>
        \A g \in Range(sample_groups) :
            /\ num_aggregated[g] >= 1
            /\ first_aggregate_time[g] - T_old > config.interval
                  => num_aggregated[g] = 1

\* C6: when a group is re-enqueued its clients' delays are sampled afresh
\* before the new aggregate_time is computed: no sampled delay serves two
\* computations of an aggregate_time.
C6_FreshDelayPerCycle ==
    \A c \in Clients : num_delay_uses[c] <= 1

\* C7: the order of the queue is total: groups with equal aggregate_time
\* are still popped and aggregated and the round does not abort.
C7_TiesDoNotAbort ==
    pc # "raised"

\* C8: the staleness handed to the aggregator is the popped group's
\* aggregate_time minus the download_time of that cycle, it is >= 0, and
\* aggregate_time >= download_time for every group whose download_time is set.
C8_StalenessNonNegative ==
    /\ staleness # Unset =>
          /\ staleness = T_cur - conf_download_time
          /\ staleness >= 0
    /\ \A g \in Clients :
          download_time[g] # Unset => aggregate_time[g] >= download_time[g]

\* a re-enqueued cycle was aggregated with a positive staleness
C8_Witness ==
    /\ IsAsync
    /\ staleness > 0
    /\ conf_download_time > T_old
    /\ T_cur = conf_download_time + staleness

\* C9: every async aggregation blends into the current global model: the
\* global model is the result of applying every blend in pop order.
C9_BlendsIntoCurrentModel ==
    model = fold_model

\* a group was aggregated with a partial blend after another aggregation had
\* changed the model it downloaded
C9_Witness ==
    /\ IsAsync
    /\ pc = "async_loop"
    /\ config.alpha < CoefScale
    /\ T_prev # Unset
    /\ conf_download_time < T_prev
    /\ T_prev < T_cur
    /\ snapshots[FormatTime(conf_download_time)] # snapshots[FormatTime(T_prev)]
    /\ model # snapshots[FormatTime(T_prev)]

\* C10: run() stops on the target accuracy only between rounds: an async
\* round returns only with an empty queue and returns the latest Record
\* entry; run() ends only after a round whose returned accuracy meets the
\* target or with the budget used up, and never starts a round after one
\* that met it.
C10_StopOnlyBetweenRounds ==
    /\ (IsAsync /\ pc = "update") =>
          /\ queue = <<>>
          /\ accuracy = get_latest_acc(records)
          /\ T_new = get_latest_t(records)
    /\ pc = "done" => (TargetMet(config, accuracy) \/ round = config.rounds)
    /\ (pc = "round" /\ round > 1) => ~TargetMet(config, accuracy)

\* an aggregation inside the first round met the target, the round went on,
\* returned a lower accuracy, and the second round started
C10_Witness ==
    /\ IsAsync
    /\ pc = "round"
    /\ round = 2
    /\ round_acc_hit
    /\ ~TargetMet(config, accuracy)
    /\ config.target_accuracy # 0

\* the call of aggregation() is over: it returned or it raised
AggregationOver == pc \in {"aggregated", "raised"}

\* sum over the batch of weight * num_samples of the tensor at position j
WeightedSum(reports, j) ==
    SeqSum([i \in 1..Len(reports) |-> reports[i].weights[j][2] * reports[i].num_samples])

\* C11: both aggregators reject an empty batch of reports and a batch whose
\* total sample count is zero: the call ends in an exception, there are no
\* updated weights, and the global model and the Record stay as they were.
C11_RejectsEmptyAndZeroBatches ==
    (/\ AggregationOver
     /\ \/ agg_call.reports = <<>>
        \/ batch_total_samples(agg_call.reports) = 0)
    => /\ pc = "raised"
       /\ agg_result.err \in {"IndexError", "ZeroDivisionError", "AssertionError"}
       /\ agg_result.weights = Unset
       /\ agg_result.model = agg_call.model
       /\ records = EmptyRecord

\* the async aggregator was handed two well-named reports of zero samples
C11_Witness ==
    /\ IsAsync
    /\ pc = "raised"
    /\ Len(agg_call.reports) = 2
    /\ batch_total_samples(agg_call.reports) = 0
    /\ agg_call.staleness >= 0
    /\ agg_result.err = "ZeroDivisionError"
    /\ agg_result.model = agg_call.model

\* a report names a tensor differently from the baseline at some position
HasNameMismatch(call) ==
    \E i \in 1..Len(call.reports) : \E j \in 1..Len(call.reports[i].weights) :
        call.reports[i].weights[j][1] # call.model[j][1]

\* C12: in sync and in async aggregation a report whose tensor name at some
\* position differs from the baseline's name at that position makes the
\* aggregation fail: the call raises and the global model is not updated.
C12_NameMismatchFatal ==
    (AggregationOver /\ HasNameMismatch(agg_call))
    => /\ pc = "raised"
       /\ agg_result.model = agg_call.model

\* C13: an async aggregation called with staleness < 0 ends in an error,
\* for the constant, the polynomial and the hinge staleness function: no
\* coefficient is computed from the negative value.
C13_NegativeStalenessRejected ==
    (AggregationOver /\ IsAsync /\ agg_call.staleness < 0) => pc = "raised"

\* C14: for an async aggregation with alpha in (0, 1] and staleness >= 0,
\* alpha_t = alpha * f(staleness) lies in (0, 1] and every tensor of the
\* output lies between the baseline's and the new weight's (the
\* sample-weighted mean of the reports); with alpha = 1 and the constant
\* function the output is the new weight exactly.
C14_BlendBounds ==
    (pc = "aggregated" /\ IsAsync /\ agg_call.staleness >= 0) =>
        LET a == alpha_t(config, agg_call.staleness)
            n == batch_total_samples(agg_call.reports)
        IN  /\ 0 < config.alpha /\ config.alpha <= CoefScale
            /\ 0 < a /\ a <= AlphaScale
            /\ \A j \in 1..Len(agg_call.model) :
                  LET out == agg_result.weights[j]
                      bl == agg_call.model[j][2] * out[3]
                      nw == WeightedSum(agg_call.reports, j) * AlphaScale
                  IN  /\ out[1] = agg_call.model[j][1]
                      /\ out[3] = AlphaScale * n
                      /\ \/ bl <= out[2] /\ out[2] <= nw
                         \/ nw <= out[2] /\ out[2] <= bl
                      /\ (config.alpha = CoefScale
                            /\ config.staleness_func = "constant") => out[2] = nw

\* a stale batch of two unequal reports was blended in part: the output is
\* strictly between the baseline and the new weight
C14_Witness ==
    /\ IsAsync
    /\ pc = "aggregated"
    /\ config.staleness_func = "polynomial"
    /\ config.alpha < CoefScale
    /\ agg_call.staleness > 0
    /\ Len(agg_call.reports) = 2
    /\ agg_call.reports[1].num_samples # agg_call.reports[2].num_samples
    /\ agg_call.model[1][2] * agg_result.weights[1][3] < agg_result.weights[1][2]
    /\ agg_result.weights[1][2] < WeightedSum(agg_call.reports, 1) * AlphaScale

\* C15: sync aggregation of reports with sample counts n1..nk and weights
\* w1..wk returns, for every tensor, under the baseline's name,
\* baseline + sum_i (w_i - baseline) * n_i / sum_j n_j.
C15_AveragingFormula ==
    (pc = "aggregated" /\ config.sync_type = "sync") =>
        LET reports == agg_call.reports
            n == batch_total_samples(reports)
        IN  \A j \in 1..Len(agg_call.model) :
               LET baseline == agg_call.model[j][2]
               IN  agg_result.weights[j] =
                      <<agg_call.model[j][1],
                        baseline * n
                          + SeqSum([i \in 1..Len(reports) |->
                                (reports[i].weights[j][2] - baseline)
                                   * reports[i].num_samples]),
                        n>>

\* sample counts 10, 20, 30 and weights 1, 2, 3 against the baseline 0
\* gave 140 / 60
C15_Witness ==
    /\ config.sync_type = "sync"
    /\ pc = "aggregated"
    /\ Len(agg_call.reports) = 3
    /\ \A i \in 1..3 : /\ agg_call.reports[i].num_samples = 10 * i
                        /\ agg_call.reports[i].weights[1][2] = i
    /\ agg_call.model[1][2] = 0
    /\ agg_result.weights[1] = <<"weight", 140, 60>>
    /\ agg_result.model = agg_result.weights

\* C16: a sync round starting at T_old performs one aggregation of all the
\* selected clients, returns T_new = T_old + the largest delay of the
\* participants, which is the largest aggregate_time of the groups, and
\* appends exactly one Record entry (T_new, accuracy), the pair it returns.
C16_SyncRoundAdvance ==
    [][(pc = "round" /\ config.sync_type = "sync") =>
          LET cs == Range(sample_groups')
          IN  /\ pc' = "update"
              /\ Cardinality(cs) = config.per_round
              /\ T_new' = T_old + Max({delay'[c] : c \in cs})
              /\ T_new' = Max({aggregate_time'[g] : g \in cs})
              /\ \A g \in cs : download_time'[g] = T_old
              /\ records'.t = Append(records.t, T_new')
              /\ records'.acc = Append(records.acc, accuracy')
              /\ \A g \in Clients :
                    num_aggregated'[g] = IF g \in cs THEN 1 ELSE 0
    ]_vars

\* the second sync round has ended; its two participants drew different
\* delays and the round took the larger one
C16_Witness ==
    /\ config.sync_type = "sync"
    /\ pc = "update"
    /\ round = 2
    /\ T_old > 0
    /\ Len(sample_groups) = 2
    /\ delay[sample_groups[1]] < delay[sample_groups[2]]
    /\ T_new = T_old + delay[sample_groups[2]]
    /\ records.t = <<T_old, T_new>>

\* the scenario: delays 2 and 5, T_old = 0, T_async = 10, alpha = 1 and the
\* constant staleness function
IsScenario ==
    /\ config.alpha = CoefScale
    /\ config.staleness_func = "constant"
    /\ config.interval = ScenarioInterval
    /\ Len(sample_groups) = 2
    /\ {delay[g] : g \in Range(sample_groups)} = ScenarioDelays

\* C17: in the scenario group A (delay 2) is aggregated first at t = 2 and
\* group B (delay 5) at t = 5, both are re-enqueued and keep cycling, and
\* the round ends normally: no step of it raises.
C17_ScenarioEndsNormally ==
    IsScenario =>
        /\ pc # "raised"
        /\ (T_cur # Unset /\ T_prev = Unset) => T_cur = 2
        /\ pc = "update" => \A g \in Range(sample_groups) : aggregate_time[g] > 10

\* C18: whenever a group is to be configured for a training cycle with
\* download_time d (T_old at the start of a round, its previous
\* aggregate_time after a re-enqueue), the snapshot tagged for d exists: the
\* pruning at the start of a round has not removed it, whether or not the
\* times are multiples of a thousandth of a second.
C18_SnapshotAvailable ==
    (IsAsync /\ pc = "async_loop") =>
        \A i \in 1..Len(queue) :
            snapshot_exists(snapshots, download_time[queue[i][2]])

\* C19: in an async round every aggregation is followed, before the next
\* pop, by exactly one snapshot write tagged with the group's aggregate_time
\* and exactly one Record append at that time, and no other step of the
\* loop writes a snapshot or appends to the Record: the aggregations, the
\* snapshot writes and the Record appends of a round are equally many.
C19_OneSnapshotOneRecord ==
    [][(IsAsync /\ pc = "async_loop") =>
          IF PopStep
          THEN LET g == select_group'
                   tag == FormatTime(aggregate_time[g])
               IN  /\ T_cur' = aggregate_time[g]
                   /\ num_aggregated' = [num_aggregated EXCEPT ![g] = Bump(@)]
                   /\ DOMAIN snapshots' = DOMAIN snapshots \cup {tag}
                   /\ snapshots'[tag] = model'
                   /\ \A x \in DOMAIN snapshots \ {tag} : snapshots'[x] = snapshots[x]
                   /\ records'.t = KeepLast(Append(records.t, T_cur'))
                   /\ records'.acc = KeepLast(Append(records.acc, test(model')))
          ELSE UNCHANGED <<model, snapshots, records, num_aggregated>>
    ]_vars

\* two aggregations of the round at different times each left their
\* snapshot, and the Record ends with their two times
C19_Witness ==
    /\ IsAsync
    /\ pc = "async_loop"
    /\ T_prev # Unset
    /\ T_prev < T_cur
    /\ {FormatTime(T_prev), FormatTime(T_cur)} \subseteq DOMAIN snapshots
    /\ snapshots[FormatTime(T_cur)] = model
    /\ snapshots[FormatTime(T_prev)] # model
    /\ records.t = <<T_prev, T_cur>>

\* C20: the window is overshot by at most one training delay: every
\* aggregation time of an async round is <= T_old + T_async + the largest
\* delay of the round's clients, and a re-enqueued cycle was downloaded no
\* later than T_old + T_async.
C20_OvershootBounded ==
    (IsAsync /\ pc \in {"async_loop", "raised", "update"}) =>
        /\ T_cur # Unset =>
              T_cur <= T_old + config.interval
                         + Max({delay[c] : c \in Range(sample_groups)})
        /\ \A g \in Range(sample_groups) :
              download_time[g] - T_old <= config.interval

\* a re-enqueued cycle was aggregated a whole delay after the window closed
C20_Witness ==
    /\ IsAsync
    /\ pc = "async_loop"
    /\ config.interval > 0
    /\ conf_download_time = T_old + config.interval
    /\ T_cur = T_old + config.interval + Max({delay[c] : c \in Range(sample_groups)})
    /\ T_cur > conf_download_time

\* C21: at every point of an async round each selected client belongs to
\* exactly one group, each group has at most one entry in the queue, the
\* queue never holds more entries than the per-round sample size, and
\* selection leaves the pool of clients as make_clients built it.
C21_OneEntryPerGroup ==
    /\ clients = [i \in 1..config.total |-> i]
    /\ (IsAsync /\ pc \in {"async_loop", "raised", "update"}) =>
          /\ Len(sample_groups) = config.per_round
          /\ Range(sample_groups) \subseteq Range(clients)
          /\ \A c \in Range(sample_groups) :
                Cardinality({i \in 1..Len(sample_groups) :
                                c \in GroupClients(sample_groups[i])}) = 1
          /\ QueueGroups(queue) \subseteq Range(sample_groups)
          /\ \A g \in Range(sample_groups) :
                Cardinality({i \in 1..Len(queue) : queue[i][2] = g}) <= 1
          /\ Len(queue) <= config.per_round

\* a group was aggregated and put back while the round's other group is
\* pending: the queue is as long as the sample
C21_Witness ==
    /\ IsAsync
    /\ pc = "async_loop"
    /\ config.per_round = 2
    /\ Len(queue) = config.per_round
    /\ select_group \in QueueGroups(queue)
    /\ QueueGroups(queue) = Range(sample_groups)

ThreadPcs == {"threads_build", "threads_start", "threads_join", "reporting",
              "reported"}

\* C22: in the async driver the clients of the popped group train on worker
\* threads, never on the coordinating thread, and the group's reports are
\* collected only after every client of the group has finished training.
C22_TrainedOnWorkerThreads ==
    (pc \in ThreadPcs /\ IsAsync) =>
        /\ \A c \in Range(thr.cs) :
              thr.training[c] # "idle" => thr.trained_by[c] = "worker"
        /\ thr.reports # <<>> =>
              \A c \in Range(thr.cs) : thr.training[c] = "finished"

====
